---- MODULE Spec2Model ----
(***************************************************************************)
(* Model of scripts/crawl_kde_wallpapers.py: the KDE Store wallpaper       *)
(* plugin crawler (listing -> per-item detail -> per-link download ->      *)
(* extract), its filename sanitizer, detail parser and retrying downloader.*)
(*                                                                         *)
(* Strings are sequences of one-character strings, so that substring       *)
(* tests, basename extraction and sanitizing are computed, not assumed.    *)
(*                                                                         *)
(* Environment: the remote server and the archive contents are chosen      *)
(* nondeterministically the first time they are asked for and repeated     *)
(* afterwards, so that a second run of main() meets the same responses.    *)
(* Filesystem calls (mkdir, open, write) are taken to succeed, so the only *)
(* exceptions inside download_file are requests.RequestException.          *)
(*                                                                         *)
(* Spec       main() run twice over one output directory                   *)
(* SanSpec    sanitize_filename on every bounded string                    *)
(* DetailSpec get_content_details on every bounded response                *)
(* LinkSpec   the target-name rule of main() on every bounded link         *)
(***************************************************************************)
EXTENDS Integers, Sequences, FiniteSets, TLC

VARIABLES
    run,              \* 1 or 2: which execution of main() is in progress
    pc,               \* position inside main() / download_file()
    remoteList,       \* listing response of the server (fixed once served)
    remoteDetail,     \* detail responses of the server, by item position
    served,           \* download responses of the server, by <<item, link>>
    faults,           \* number of faulty download/archive responses so far
    items,            \* main: items
    idx,              \* main: i (position in items, 1-based; 0 before listing)
    plugin_name,      \* main: plugin_name
    details,          \* main: details (NoneVal or record with downloads)
    j,                \* main: position in details["downloads"] (1-based)
    output_path,      \* main: output_path, as <<plugin_name, filename>>
    attempt,          \* download_file: attempt
    dlGets,           \* download_file: GET requests issued by the current call
    waits,            \* download_file: backoff sleeps of the current call
    dlResult,         \* download_file: returned value
    downloaded_count, \* main: downloaded_count
    failed_count,     \* main: failed_count
    skipped_count,    \* main: skipped_count
    first,            \* the three counters at the end of run 1
    files,            \* filesystem: paths of existing regular files
    partial,          \* filesystem: files whose body was cut short
    dirs,             \* filesystem: existing "src" extraction directories
    trace,            \* the requests and sleeps of the current run, in order
    name_in,          \* sanitizer harness: input string
    name_out,         \* sanitizer harness: <<sanitize(x), sanitize(sanitize(x))>>
    xml_in,           \* detail-parser harness: parsed response
    details_out,      \* detail-parser harness: value returned
    link_in,          \* target-name harness: [item, url, name]
    link_out          \* target-name harness: result of the target-name rule

vars == << run, pc, remoteList, remoteDetail, served, faults, items, idx,
           plugin_name, details, j, output_path, attempt, dlGets, waits,
           dlResult, downloaded_count, failed_count, skipped_count, first,
           files, partial, dirs, trace,
           name_in, name_out, xml_in, details_out, link_in, link_out >>

pipeVars == << run, pc, remoteList, remoteDetail, served, faults, items, idx,
               plugin_name, details, j, output_path, attempt, dlGets, waits,
               dlResult, downloaded_count, failed_count, skipped_count, first,
               files, partial, dirs, trace >>

harnessVars == << name_in, name_out, xml_in, details_out, link_in, link_out >>

----------------------------------------------------------------------------
(* Program constants *)

DELAY_BETWEEN_REQUESTS == 3
MAX_RETRIES == 3
RETRY_DELAY == 10
\* range(1, 10): the highest downloadlink index that is read
MAX_LINK_INDEX == 9

(* Bounds of the model *)

\* longest sanitizer input
MaxLen == 3
\* most download links in the whole catalogue
MaxLinksTotal == 2
\* most faulty responses (429, error, cut stream, corrupt archive) per scenario
MaxFaults == 3
\* most downloadlink/downloadname indices carrying a value in one response
MaxPopulated == 2

----------------------------------------------------------------------------
(* Strings as sequences of characters *)

\* Python None, comparable with the dictionaries it stands in for
NoneVal == [none |-> TRUE]

\* a harness output is << >> until the function has been applied
Unset == << >>

\* Python "sub in s"
Contains(s, sub) ==
    \E p \in 1..(Len(s) - Len(sub) + 1) : SubSeq(s, p, p + Len(sub) - 1) = sub

\* Python str.endswith
EndsWith(s, suf) ==
    Len(s) >= Len(suf) /\ SubSeq(s, Len(s) - Len(suf) + 1, Len(s)) = suf

Upper == << "A","B","C","D","E","F","G","H","I","J","K","L","M",
            "N","O","P","Q","R","S","T","U","V","W","X","Y","Z" >>
Lowercase == << "a","b","c","d","e","f","g","h","i","j","k","l","m",
                "n","o","p","q","r","s","t","u","v","w","x","y","z" >>

LowerChar(c) ==
    IF \E k \in 1..26 : Upper[k] = c
    THEN Lowercase[CHOOSE k \in 1..26 : Upper[k] = c]
    ELSE c

\* Python str.lower
Lower(s) == [p \in 1..Len(s) |-> LowerChar(s[p])]

----------------------------------------------------------------------------
(* sanitize_filename *)

\* the character class [<>:"/\\|?*]
ForbiddenChars == { "<", ">", ":", "\"", "/", "\\", "|", "?", "*" }

\* the character class \s (the ASCII members that a TLA+ string can hold)
WhitespaceChars == { " ", "\t", "\n", "\r", "\f" }

\* re.sub(r'[<>:"/\\|?*]', '_', name)
ReplaceForbidden(s) ==
    [p \in 1..Len(s) |-> IF s[p] \in ForbiddenChars THEN "_" ELSE s[p]]

\* re.sub(r'\s+', '_', name): each maximal run of whitespace becomes one "_"
RECURSIVE CollapseWhitespace(_)
CollapseWhitespace(s) ==
    IF s = << >> THEN << >>
    ELSE IF Head(s) \in WhitespaceChars
         THEN IF Len(s) >= 2 /\ s[2] \in WhitespaceChars
              THEN CollapseWhitespace(Tail(s))
              ELSE << "_" >> \o CollapseWhitespace(Tail(s))
         ELSE << Head(s) >> \o CollapseWhitespace(Tail(s))

RECURSIVE LStrip(_, _)
LStrip(s, cs) ==
    IF s # << >> /\ Head(s) \in cs THEN LStrip(Tail(s), cs) ELSE s

RECURSIVE RStrip(_, _)
RStrip(s, cs) ==
    IF s # << >> /\ s[Len(s)] \in cs
    THEN RStrip(SubSeq(s, 1, Len(s) - 1), cs) ELSE s

\* name.strip('._')
Strip(s, cs) == RStrip(LStrip(s, cs), cs)

UnknownName == << "u","n","k","n","o","w","n" >>

\* a sanitizer that forgets the "unknown" fallback
sanitize_filename_nofallback(name) ==
    Strip(CollapseWhitespace(ReplaceForbidden(name)), { ".", "_" })

sanitize_filename(name) ==
    LET stripped == Strip(CollapseWhitespace(ReplaceForbidden(name)), { ".", "_" })
    IN  IF stripped = << >> THEN UnknownName ELSE stripped

----------------------------------------------------------------------------
(* get_content_details: the parsed response and the links read from it *)

\* f"{i}" for the indices a response can carry
DigitChars == << "0","1","2","3","4","5","6","7","8","9" >>
IntStr(n) ==
    IF n < 10 THEN << DigitChars[n + 1] >>
    ELSE << DigitChars[(n \div 10) + 1], DigitChars[(n % 10) + 1] >>

FilePrefix == << "f","i","l","e" >>

\* a response may carry one numbered field more than the parser reads
XmlIndices == 1..(MAX_LINK_INDEX + 1)

\* the loop "for i in range(1, 10)" from index i on; c.link[i] and c.name[i]
\* are content.findtext(f"downloadlink{i}", "") and findtext(f"downloadname{i}", "")
RECURSIVE CollectDownloads(_, _, _)
CollectDownloads(c, i, last) ==
    IF i > last THEN << >>
    ELSE (IF c.link[i] # << >>
          THEN << [url  |-> c.link[i],
                   name |-> IF c.name[i] # << >> THEN c.name[i]
                            ELSE FilePrefix \o IntStr(i)] >>
          ELSE << >>)
         \o CollectDownloads(c, i + 1, last)

\* a parser that also reads downloadlink10
get_content_details_offbyone(resp) ==
    IF resp.kind = "nocontent" THEN NoneVal
    ELSE [downloads |-> CollectDownloads(resp, 1, MAX_LINK_INDEX + 1)]

\* value returned for a response that was received and parsed (the raising
\* paths, raise_for_status and ET.fromstring, are taken in GetContentDetails)
get_content_details(resp) ==
    IF resp.kind = "nocontent" THEN NoneVal
    ELSE [downloads |-> CollectDownloads(resp, 1, MAX_LINK_INDEX)]

----------------------------------------------------------------------------
(* main: the target-name rule of one download link *)

ExtTarGz == << ".","t","a","r",".","g","z" >>
ExtTarXz == << ".","t","a","r",".","x","z" >>
ExtTgz == << ".","t","g","z" >>
ExtZip == << ".","z","i","p" >>
ExtTarBz2 == << ".","t","a","r",".","b","z","2" >>
ArchiveExts == { ExtTarGz, ExtTarXz, ExtTgz, ExtZip, ExtTarBz2 }
DownloadWord == << "d","o","w","n","l","o","a","d" >>
SchemeSep == << ":","/","/" >>

\* position of the first character of s that is in cs, Len(s)+1 when none
FirstOf(s, cs) ==
    IF \E p \in 1..Len(s) : s[p] \in cs
    THEN CHOOSE p \in 1..Len(s) : s[p] \in cs /\ \A q \in 1..(p - 1) : s[q] \notin cs
    ELSE Len(s) + 1

\* urlparse(url).path for "scheme://netloc/path?query#fragment"
UrlPath(url) ==
    LET hasScheme == Contains(url, SchemeSep)
        p    == CHOOSE q \in 1..(Len(url) - 2) :
                    /\ SubSeq(url, q, q + 2) = SchemeSep
                    /\ \A r \in 1..(q - 1) : SubSeq(url, r, r + 2) # SchemeSep
        rest == IF hasScheme THEN SubSeq(url, p + 3, Len(url)) ELSE url
        tail == IF hasScheme
                THEN SubSeq(rest, FirstOf(rest, { "/", "?", "#" }), Len(rest))
                ELSE rest
    IN  SubSeq(tail, 1, FirstOf(tail, { "?", "#" }) - 1)

\* os.path.basename
RECURSIVE Basename(_)
Basename(path) ==
    IF path = << >> \/ path[Len(path)] = "/" THEN << >>
    ELSE Basename(SubSeq(path, 1, Len(path) - 1)) \o << path[Len(path)] >>

\* filename = os.path.basename(parsed_url.path); if not filename: filename = dl["name"]
ChosenFilename(dl) ==
    LET base == Basename(UrlPath(dl.url))
    IN  IF base = << >> THEN dl.name ELSE base

\* any(ext in filename.lower() for ext in [...])
HasArchiveExt(filename) ==
    \E ext \in ArchiveExts : Contains(Lower(filename), ext)

\* a rule that consults the display name as well as the chosen filename
LinkTarget_eithername(pname, dl) ==
    IF dl.url = << >> THEN [pass |-> TRUE, filename |-> << >>]
    ELSE LET filename == ChosenFilename(dl)
         IN  IF HasArchiveExt(filename) \/ HasArchiveExt(dl.name)
             THEN [pass |-> FALSE, filename |-> filename]
             ELSE IF Contains(Lower(dl.url), DownloadWord)
                  THEN [pass |-> FALSE, filename |-> pname \o ExtTarGz]
                  ELSE [pass |-> TRUE, filename |-> filename]

\* lines 219-236: pass = the loop goes on to the next link without a target
LinkTarget(pname, dl) ==
    IF dl.url = << >> THEN [pass |-> TRUE, filename |-> << >>]
    ELSE LET filename == ChosenFilename(dl)
         IN  IF HasArchiveExt(filename)
             THEN [pass |-> FALSE, filename |-> filename]
             ELSE IF Contains(Lower(dl.url), DownloadWord)
                  THEN [pass |-> FALSE, filename |-> pname \o ExtTarGz]
                  ELSE [pass |-> TRUE, filename |-> filename]

\* extract_archive: the suffixes for which an extraction is attempted
CanDispatch(filename) ==
    \E suf \in { ExtTarGz, ExtTgz, ExtTarXz, ExtTarBz2, ExtZip } : EndsWith(filename, suf)

----------------------------------------------------------------------------
(* Inputs of the three pure functions *)

UrlDirect == << "h","t","t","p",":","/","/","x","/","c",".","z","i","p" >>
UrlIndirect == << "h","t","t","p",":","/","/","x","/","d","o","w","n","l","o","a","d","/","7" >>
UrlOpaque == << "h","t","t","p",":","/","/","x","/","f","/","7" >>
UrlNoBase == << "h","t","t","p",":","/","/","x","/","f","/" >>
UrlUpper == << "h","t","t","p",":","/","/","x","/","F","/","C",".","Z","I","P" >>
UrlQuery == << "h","t","t","p",":","/","/","x","/","f","/","7","?","a","=","D","o","w","n","l","o","a","d" >>
UrlSig == << "h","t","t","p",":","/","/","x","/","c",".","z","i","p",".","s","i","g" >>
NameZip == << "c",".","z","i","p" >>
NameTxt == << "r",".","t","x","t" >>
NameFile1 == << "f","i","l","e","1" >>
ItemSpace == << "a"," ","b" >>
ItemSlash == << "a","/","b" >>
ItemDots == << ".","." >>
ItemPlain == << "c" >>

Urls == { UrlDirect, UrlIndirect, UrlOpaque, UrlNoBase, UrlUpper, UrlQuery, UrlSig }
DisplayNames == { NameZip, NameTxt, NameFile1 }
ItemNames == { ItemSpace, ItemSlash, ItemDots, ItemPlain }

SanAlphabet == ForbiddenChars \cup { " ", "\t", ".", "_", "a" }
SanInputs == UNION { [1..n -> SanAlphabet] : n \in 0..MaxLen }

\* value of downloadlink{i} / downloadname{i} when the response carries it
LinkVal(i) == << "u" >> \o IntStr(i)
NameVal(i) == << "n" >> \o IntStr(i)

\* responses with at most MaxPopulated numbered fields carrying a value; at a
\* populated index: 1 = link only, 2 = link and name, 3 = name only
XmlContent(P, k) ==
    [kind |-> "content",
     link |-> [i \in XmlIndices |-> IF i \in P /\ k[i] \in {1, 2} THEN LinkVal(i) ELSE << >>],
     name |-> [i \in XmlIndices |-> IF i \in P /\ k[i] \in {2, 3} THEN NameVal(i) ELSE << >>]]

XmlNoContent ==
    [kind |-> "nocontent",
     link |-> [i \in XmlIndices |-> << >>],
     name |-> [i \in XmlIndices |-> << >>]]

XmlResponses ==
    { XmlNoContent } \cup
    UNION { { XmlContent(P, k) : k \in [P -> 1..3] } :
            P \in { Q \in SUBSET XmlIndices : Cardinality(Q) <= MaxPopulated } }

----------------------------------------------------------------------------
(* The remote server as main() meets it *)

\* what the detail endpoint answers: an error (kind "raise"), a document
\* without content element, or one whose downloadlink1.. are the links ls
DetailAnswer(kind, ls) == [kind |-> kind, links |-> ls]

\* the parsed document of a detail answer
XmlOf(resp) ==
    IF resp.kind = "nocontent" THEN XmlNoContent
    ELSE [kind |-> "content",
          link |-> [i \in XmlIndices |->
                      IF i <= Len(resp.links) THEN resp.links[i].url ELSE << >>],
          name |-> [i \in XmlIndices |->
                      IF i <= Len(resp.links) THEN resp.links[i].name ELSE << >>]]

\* the links a detail answer is made of: one with an archive basename, one
\* that gets the synthesized name, one that main() passes over
LinkPool ==
    { [url |-> UrlDirect,   name |-> << >>],
      [url |-> UrlIndirect, name |-> NameZip],
      [url |-> UrlOpaque,   name |-> NameTxt] }

\* the catalogue of the server: two plugins whose names sanitize to the same
\* directory; a listing is a prefix of it
Catalogue == << ItemSpace, ItemSlash >>

RECURSIVE LinksServed(_)
LinksServed(rs) ==
    IF rs = << >> THEN 0 ELSE Len(Head(rs).links) + LinksServed(Tail(rs))

\* detail answers the server may give once the answers rs have been given
DetailResponses(rs) ==
    { DetailAnswer("raise", << >>), DetailAnswer("nocontent", << >>) } \cup
    { DetailAnswer("content", ls) :
        ls \in UNION { [1..n -> LinkPool] : n \in 0..(MaxLinksTotal - LinksServed(rs)) } }

ListResponses ==
    { [kind |-> "raise", names |-> << >>] } \cup
    { [kind |-> "ok", names |-> SubSeq(Catalogue, 1, n)] : n \in 0..Len(Catalogue) }

\* outcomes of one GET of download_file: body received, HTTP 429, a
\* RequestException before the file is opened (transport error or error
\* status), a RequestException while the body is streamed to the open file
Outcomes == { "ok", "429", "error", "cut" }

LinkKeys == (1..Len(Catalogue)) \X (1..MaxLinksTotal)
NothingServed == [k \in LinkKeys |-> << >>]

(* State of main() while it is not running *)

PipeIdle ==
    /\ run = 1 /\ pc = "idle"
    /\ remoteList = << >> /\ remoteDetail = << >> /\ served = NothingServed
    /\ faults = 0
    /\ items = << >> /\ idx = 0 /\ plugin_name = << >> /\ details = NoneVal
    /\ j = 0 /\ output_path = << >>
    /\ attempt = 0 /\ dlGets = 0 /\ waits = << >> /\ dlResult = "pending"
    /\ downloaded_count = 0 /\ failed_count = 0 /\ skipped_count = 0
    /\ first = << >>
    /\ files = {} /\ partial = {} /\ dirs = {}
    /\ trace = << >>

NoLink == [item |-> << >>, url |-> << >>, name |-> << >>]

HarnessIdle ==
    /\ name_in = << >> /\ name_out = Unset
    /\ xml_in = XmlNoContent /\ details_out = Unset
    /\ link_in = NoLink /\ link_out = Unset

----------------------------------------------------------------------------
(* sanitize_filename applied to every bounded input *)

SanInit ==
    /\ PipeIdle
    /\ name_in \in SanInputs /\ name_out = Unset
    /\ xml_in = XmlNoContent /\ details_out = Unset
    /\ link_in = NoLink /\ link_out = Unset

Sanitize ==
    /\ name_out = Unset
    /\ name_out' = << sanitize_filename(name_in),
                      sanitize_filename(sanitize_filename(name_in)) >>
    /\ UNCHANGED << name_in, xml_in, details_out, link_in, link_out >>
    /\ UNCHANGED pipeVars

SanNext == Sanitize
SanSpec == SanInit /\ [][SanNext]_vars

(* get_content_details applied to every bounded response *)

DetailInit ==
    /\ PipeIdle
    /\ xml_in \in XmlResponses /\ details_out = Unset
    /\ name_in = << >> /\ name_out = Unset
    /\ link_in = NoLink /\ link_out = Unset

ParseDetails ==
    /\ details_out = Unset
    /\ details_out' = << get_content_details(xml_in) >>
    /\ UNCHANGED << name_in, name_out, xml_in, link_in, link_out >>
    /\ UNCHANGED pipeVars

DetailNext == ParseDetails
DetailSpec == DetailInit /\ [][DetailNext]_vars

(* the target-name rule applied to every bounded link *)

LinkInit ==
    /\ PipeIdle
    /\ link_in \in [item : ItemNames, url : Urls, name : DisplayNames]
    /\ link_out = Unset
    /\ name_in = << >> /\ name_out = Unset
    /\ xml_in = XmlNoContent /\ details_out = Unset

NameLink ==
    /\ link_out = Unset
    /\ link_out' = << LinkTarget(sanitize_filename(link_in.item),
                                 [url |-> link_in.url, name |-> link_in.name]) >>
    /\ UNCHANGED << name_in, name_out, xml_in, details_out, link_in >>
    /\ UNCHANGED pipeVars

LinkNext == NameLink
LinkSpec == LinkInit /\ [][LinkNext]_vars

----------------------------------------------------------------------------
(* main(), run twice over the same output directory and the same server *)

Init ==
    /\ run = 1 /\ pc = "start"
    /\ remoteList = << >> /\ remoteDetail = << >> /\ served = NothingServed
    /\ faults = 0
    /\ items = << >> /\ idx = 0 /\ plugin_name = << >> /\ details = NoneVal
    /\ j = 0 /\ output_path = << >>
    /\ attempt = 0 /\ dlGets = 0 /\ waits = << >> /\ dlResult = "pending"
    /\ downloaded_count = 0 /\ failed_count = 0 /\ skipped_count = 0
    /\ first = << >>
    /\ files = {} /\ partial = {} /\ dirs = {}
    /\ trace = << >>
    /\ HarnessIdle

Get(what, n) == [ev |-> "get", what |-> what, n |-> n]
Sleep(what, secs) == [ev |-> "sleep", what |-> what, n |-> secs]

dlVars == << attempt, dlGets, waits, dlResult >>
countVars == << downloaded_count, failed_count, skipped_count >>
remoteVars == << remoteList, remoteDetail, served, faults >>
fsVars == << files, partial, dirs >>

\* the listing response: the one already given, else any
ListResponse ==
    IF remoteList # << >> THEN { remoteList[1] } ELSE ListResponses

\* get_all_content_items raises (HTTP error, malformed XML, status not ok):
\* the exception leaves main()
ListingFails ==
    /\ pc = "start"
    /\ \E resp \in ListResponse :
        /\ resp.kind = "raise"
        /\ remoteList' = << resp >>
    /\ trace' = Append(trace, Get("list", 0))
    /\ pc' = "aborted"
    /\ UNCHANGED << run, remoteDetail, served, faults, items, idx, plugin_name,
                    details, j, output_path, first >>
    /\ UNCHANGED << dlVars, countVars, fsVars, harnessVars >>

\* lines 192-198
GetAllContentItems ==
    /\ pc = "start"
    /\ \E resp \in ListResponse :
        /\ resp.kind = "ok"
        /\ remoteList' = << resp >>
        /\ items' = [k \in 1..Len(resp.names) |-> [id |-> k, name |-> resp.names[k]]]
    /\ trace' = Append(trace, Get("list", 0))
    /\ downloaded_count' = 0 /\ failed_count' = 0 /\ skipped_count' = 0
    /\ idx' = 1
    /\ pc' = "item"
    /\ UNCHANGED << run, remoteDetail, served, faults, plugin_name, details, j,
                    output_path, first >>
    /\ UNCHANGED << dlVars, fsVars, harnessVars >>

\* the for loop over items is exhausted: the summary is printed
AllItemsDone ==
    /\ pc = "item" /\ idx > Len(items)
    /\ pc' = "done"
    /\ UNCHANGED << run, items, idx, plugin_name, details, j, output_path, first, trace >>
    /\ UNCHANGED << remoteVars, dlVars, countVars, fsVars, harnessVars >>

\* lines 203-209
BeginItem ==
    /\ pc = "item" /\ idx <= Len(items)
    /\ plugin_name' = sanitize_filename(items[idx].name)
    /\ trace' = Append(trace, Sleep("pace", DELAY_BETWEEN_REQUESTS))
    /\ pc' = "detail"
    /\ UNCHANGED << run, items, idx, details, j, output_path, first >>
    /\ UNCHANGED << remoteVars, dlVars, countVars, fsVars, harnessVars >>

\* the negation of "not details or not details['downloads']"
HasDownloads(d) == IF d = NoneVal THEN FALSE ELSE d.downloads # << >>

\* the detail response of item idx: the one already given, else any
DetailResponse ==
    IF idx <= Len(remoteDetail) THEN { remoteDetail[idx] }
    ELSE DetailResponses(remoteDetail)

RecordDetail(resp) ==
    remoteDetail' = IF idx <= Len(remoteDetail) THEN remoteDetail
                    ELSE Append(remoteDetail, resp)

\* line 210, get_content_details raises (raise_for_status, ET.fromstring, a
\* transport error): nothing in main() catches it
DetailRaises ==
    /\ pc = "detail"
    /\ \E resp \in DetailResponse :
        /\ resp.kind = "raise"
        /\ RecordDetail(resp)
    /\ trace' = Append(trace, Get("detail", 0))
    /\ pc' = "aborted"
    /\ UNCHANGED << run, remoteList, served, faults, items, idx, plugin_name,
                    details, j, output_path, first >>
    /\ UNCHANGED << dlVars, countVars, fsVars, harnessVars >>

\* lines 210-215: details is None or has no downloads
DetailNoDownloads ==
    /\ pc = "detail"
    /\ \E resp \in DetailResponse :
        /\ resp.kind # "raise"
        /\ RecordDetail(resp)
        /\ LET d == get_content_details(XmlOf(resp))
           IN  /\ ~HasDownloads(d)
               /\ details' = d
    /\ trace' = Append(trace, Get("detail", 0))
    /\ failed_count' = failed_count + 1
    /\ idx' = idx + 1
    /\ pc' = "item"
    /\ UNCHANGED << run, remoteList, served, faults, items, plugin_name, j,
                    output_path, first, downloaded_count, skipped_count >>
    /\ UNCHANGED << dlVars, fsVars, harnessVars >>

\* lines 210-218: details carries links, the loop over them starts
DetailWithDownloads ==
    /\ pc = "detail"
    /\ \E resp \in DetailResponse :
        /\ resp.kind # "raise"
        /\ RecordDetail(resp)
        /\ LET d == get_content_details(XmlOf(resp))
           IN  /\ HasDownloads(d)
               /\ details' = d
    /\ trace' = Append(trace, Get("detail", 0))
    /\ j' = 1
    /\ pc' = "link"
    /\ UNCHANGED << run, remoteList, served, faults, items, idx, plugin_name,
                    output_path, first >>
    /\ UNCHANGED << dlVars, countVars, fsVars, harnessVars >>

\* the link the loop of line 218 is at, and what lines 219-238 make of it
CurrentLink == details.downloads[j]
CurrentTarget == LinkTarget(plugin_name, CurrentLink)
\* plugin_dir / filename
CurrentPath == << plugin_name, CurrentTarget.filename >>

\* the loop over details["downloads"] is exhausted: next item
LinksDone ==
    /\ pc = "link" /\ j > Len(details.downloads)
    /\ idx' = idx + 1
    /\ pc' = "item"
    /\ UNCHANGED << run, items, plugin_name, details, j, output_path, first, trace >>
    /\ UNCHANGED << remoteVars, dlVars, countVars, fsVars, harnessVars >>

\* lines 220-221 and 234-236: "continue" without touching a counter
LinkPassOver ==
    /\ pc = "link" /\ j <= Len(details.downloads)
    /\ CurrentTarget.pass
    /\ j' = j + 1
    /\ UNCHANGED << run, pc, items, idx, plugin_name, details, output_path, first, trace >>
    /\ UNCHANGED << remoteVars, dlVars, countVars, fsVars, harnessVars >>

\* lines 238-244
LinkSkipExisting ==
    /\ pc = "link" /\ j <= Len(details.downloads)
    /\ ~CurrentTarget.pass
    /\ CurrentPath \in files
    /\ output_path' = CurrentPath
    /\ skipped_count' = skipped_count + 1
    /\ j' = j + 1
    /\ UNCHANGED << run, pc, items, idx, plugin_name, details, first, trace,
                    downloaded_count, failed_count >>
    /\ UNCHANGED << remoteVars, dlVars, fsVars, harnessVars >>

\* a driver that downloads whether or not the destination exists
LinkStartDownload_overwrite ==
    /\ pc = "link" /\ j <= Len(details.downloads)
    /\ ~CurrentTarget.pass
    /\ output_path' = CurrentPath
    /\ trace' = Append(trace, Sleep("pace", DELAY_BETWEEN_REQUESTS))
    /\ attempt' = 0 /\ dlGets' = 0 /\ waits' = << >> /\ dlResult' = "pending"
    /\ pc' = "download"
    /\ UNCHANGED << run, items, idx, plugin_name, details, j, first >>
    /\ UNCHANGED << remoteVars, countVars, fsVars, harnessVars >>

\* a driver that calls the downloader without the pacing pause
LinkStartDownload_nopause ==
    /\ pc = "link" /\ j <= Len(details.downloads)
    /\ ~CurrentTarget.pass
    /\ CurrentPath \notin files
    /\ output_path' = CurrentPath
    /\ attempt' = 0 /\ dlGets' = 0 /\ waits' = << >> /\ dlResult' = "pending"
    /\ pc' = "download"
    /\ UNCHANGED << run, items, idx, plugin_name, details, j, first, trace >>
    /\ UNCHANGED << remoteVars, countVars, fsVars, harnessVars >>

\* lines 238-248: the destination does not exist, download_file is entered
LinkStartDownload ==
    /\ pc = "link" /\ j <= Len(details.downloads)
    /\ ~CurrentTarget.pass
    /\ CurrentPath \notin files
    /\ output_path' = CurrentPath
    /\ trace' = Append(trace, Sleep("pace", DELAY_BETWEEN_REQUESTS))
    /\ attempt' = 0 /\ dlGets' = 0 /\ waits' = << >> /\ dlResult' = "pending"
    /\ pc' = "download"
    /\ UNCHANGED << run, items, idx, plugin_name, details, j, first >>
    /\ UNCHANGED << remoteVars, countVars, fsVars, harnessVars >>

----------------------------------------------------------------------------
(* download_file: one iteration of "for attempt in range(MAX_RETRIES)" *)

\* a backoff that does not grow with the attempt
Backoff_flat(att) == RETRY_DELAY

\* wait_time = RETRY_DELAY * (attempt + 1)
Backoff(att) == RETRY_DELAY * (att + 1)

\* the response to GET number dlGets+1 for the current link: the one already
\* given, else the body or, within the fault budget, a fault; a link that
\* has answered with a fault repeats that fault until it sends the body
Responses ==
    LET given == served[<< idx, j >>]
    IN  IF dlGets + 1 <= Len(given) THEN { given[dlGets + 1] }
        ELSE { o \in Outcomes :
                 \/ o = "ok"
                 \/ faults < MaxFaults /\ (given = << >> \/ o = given[1]) }

Serve(o) ==
    LET given == served[<< idx, j >>]
    IN  IF dlGets + 1 <= Len(given)
        THEN UNCHANGED << served, faults >>
        ELSE /\ served' = [served EXCEPT ![<< idx, j >>] = Append(given, o)]
             /\ faults' = IF o = "ok" THEN faults ELSE faults + 1

\* a downloader that reports success without leaving the file
DownloadOk_nowrite ==
    /\ pc = "download" /\ attempt < MAX_RETRIES
    /\ "ok" \in Responses /\ Serve("ok")
    /\ trace' = Append(trace, Get("download", attempt))
    /\ dlGets' = dlGets + 1
    /\ dlResult' = "True"
    /\ pc' = "dlreturn"
    /\ UNCHANGED << run, remoteList, remoteDetail, items, idx, plugin_name,
                    details, j, output_path, first, attempt, waits >>
    /\ UNCHANGED << countVars, fsVars, harnessVars >>

\* lines 128-147: the body is written to output_path, True is returned
DownloadOk ==
    /\ pc = "download" /\ attempt < MAX_RETRIES
    /\ "ok" \in Responses /\ Serve("ok")
    /\ trace' = Append(trace, Get("download", attempt))
    /\ dlGets' = dlGets + 1
    /\ files' = files \cup { output_path }
    /\ partial' = partial \ { output_path }
    /\ dlResult' = "True"
    /\ pc' = "dlreturn"
    /\ UNCHANGED << run, remoteList, remoteDetail, items, idx, plugin_name,
                    details, j, output_path, first, attempt, waits, dirs >>
    /\ UNCHANGED << countVars, harnessVars >>

\* lines 131-135, and line 156 when the loop is exhausted
DownloadRateLimited ==
    /\ pc = "download" /\ attempt < MAX_RETRIES
    /\ "429" \in Responses /\ Serve("429")
    /\ trace' = trace \o << Get("download", attempt), Sleep("backoff", Backoff(attempt)) >>
    /\ dlGets' = dlGets + 1
    /\ waits' = Append(waits, Backoff(attempt))
    /\ attempt' = attempt + 1
    /\ IF attempt + 1 < MAX_RETRIES
       THEN UNCHANGED << pc, dlResult >>
       ELSE dlResult' = "False" /\ pc' = "dlreturn"
    /\ UNCHANGED << run, remoteList, remoteDetail, items, idx, plugin_name,
                    details, j, output_path, first >>
    /\ UNCHANGED << countVars, fsVars, harnessVars >>

\* lines 148-155 after a RequestException: back off and go round again, or
\* return False on the last attempt
HandleRequestException ==
    /\ dlGets' = dlGets + 1
    /\ IF attempt < MAX_RETRIES - 1
       THEN /\ trace' = trace \o << Get("download", attempt),
                                    Sleep("backoff", Backoff(attempt)) >>
            /\ waits' = Append(waits, Backoff(attempt))
            /\ attempt' = attempt + 1
            /\ UNCHANGED << pc, dlResult >>
       ELSE /\ trace' = Append(trace, Get("download", attempt))
            /\ dlResult' = "False" /\ pc' = "dlreturn"
            /\ UNCHANGED << attempt, waits >>

\* session.get or raise_for_status raises a RequestException
DownloadRequestError ==
    /\ pc = "download" /\ attempt < MAX_RETRIES
    /\ "error" \in Responses /\ Serve("error")
    /\ HandleRequestException
    /\ UNCHANGED << run, remoteList, remoteDetail, items, idx, plugin_name,
                    details, j, output_path, first >>
    /\ UNCHANGED << countVars, fsVars, harnessVars >>

\* lines 142-144 raise a RequestException from iter_content: the file has
\* been opened with "wb" and holds the chunks written so far
DownloadStreamError ==
    /\ pc = "download" /\ attempt < MAX_RETRIES
    /\ "cut" \in Responses /\ Serve("cut")
    /\ HandleRequestException
    /\ files' = files \cup { output_path }
    /\ partial' = partial \cup { output_path }
    /\ UNCHANGED << run, remoteList, remoteDetail, items, idx, plugin_name,
                    details, j, output_path, first, dirs >>
    /\ UNCHANGED << countVars, harnessVars >>

----------------------------------------------------------------------------
(* main() after download_file has returned: lines 248-256 *)

\* extract_dir = plugin_dir / "src"
ExtractDir == << plugin_name, << "s","r","c" >> >>

\* download_file returned True, extract_dir exists: no extraction
DownloadedNoExtract ==
    /\ pc = "dlreturn" /\ dlResult = "True"
    /\ ExtractDir \in dirs
    /\ downloaded_count' = downloaded_count + 1
    /\ j' = j + 1
    /\ pc' = "link"
    /\ UNCHANGED << run, items, idx, plugin_name, details, output_path, first,
                    trace, failed_count, skipped_count >>
    /\ UNCHANGED << remoteVars, dlVars, fsVars, harnessVars >>

\* download_file returned True, extract_archive extracts into extract_dir
DownloadedAndExtracted ==
    /\ pc = "dlreturn" /\ dlResult = "True"
    /\ ExtractDir \notin dirs
    /\ CanDispatch(output_path[2])
    /\ dirs' = dirs \cup { ExtractDir }
    /\ downloaded_count' = downloaded_count + 1
    /\ j' = j + 1
    /\ pc' = "link"
    /\ UNCHANGED << run, items, idx, plugin_name, details, output_path, first,
                    trace, failed_count, skipped_count, files, partial >>
    /\ UNCHANGED << remoteVars, dlVars, harnessVars >>

\* download_file returned True, extract_archive returns False: no suffix
\* matches, or the archive cannot be opened (a faulty response body)
DownloadedExtractFailed ==
    /\ pc = "dlreturn" /\ dlResult = "True"
    /\ ExtractDir \notin dirs
    /\ IF CanDispatch(output_path[2])
       THEN faults < MaxFaults /\ faults' = faults + 1
       ELSE faults' = faults
    /\ downloaded_count' = downloaded_count + 1
    /\ j' = j + 1
    /\ pc' = "link"
    /\ UNCHANGED << run, items, idx, plugin_name, details, output_path, first,
                    trace, failed_count, skipped_count, remoteList, remoteDetail, served >>
    /\ UNCHANGED << dlVars, fsVars, harnessVars >>

\* a driver that forgets to count a failed download
DownloadFailed_uncounted ==
    /\ pc = "dlreturn" /\ dlResult = "False"
    /\ j' = j + 1
    /\ pc' = "link"
    /\ UNCHANGED << run, items, idx, plugin_name, details, output_path, first, trace >>
    /\ UNCHANGED << remoteVars, dlVars, countVars, fsVars, harnessVars >>

\* download_file returned False
DownloadFailed ==
    /\ pc = "dlreturn" /\ dlResult = "False"
    /\ failed_count' = failed_count + 1
    /\ j' = j + 1
    /\ pc' = "link"
    /\ UNCHANGED << run, items, idx, plugin_name, details, output_path, first,
                    trace, downloaded_count, skipped_count >>
    /\ UNCHANGED << remoteVars, dlVars, fsVars, harnessVars >>

----------------------------------------------------------------------------
(* the script is run a second time: same server, same output directory *)

RunAgain ==
    /\ run = 1 /\ pc \in { "done", "aborted" }
    /\ first' = << [downloaded |-> downloaded_count, skipped |-> skipped_count,
                    failed |-> failed_count, ended |-> pc] >>
    /\ run' = 2
    /\ pc' = "start"
    /\ items' = << >> /\ idx' = 0 /\ plugin_name' = << >> /\ details' = NoneVal
    /\ j' = 0 /\ output_path' = << >>
    /\ attempt' = 0 /\ dlGets' = 0 /\ waits' = << >> /\ dlResult' = "pending"
    /\ downloaded_count' = 0 /\ failed_count' = 0 /\ skipped_count' = 0
    /\ trace' = << >>
    /\ UNCHANGED << remoteVars, fsVars, harnessVars >>

Next ==
    \/ ListingFails \/ GetAllContentItems
    \/ AllItemsDone \/ BeginItem
    \/ DetailRaises \/ DetailNoDownloads \/ DetailWithDownloads
    \/ LinksDone \/ LinkPassOver \/ LinkSkipExisting \/ LinkStartDownload
    \/ DownloadOk \/ DownloadRateLimited \/ DownloadRequestError \/ DownloadStreamError
    \/ DownloadedNoExtract \/ DownloadedAndExtracted \/ DownloadedExtractFailed
    \/ DownloadFailed
    \/ RunAgain

Spec == Init /\ [][Next]_vars

----------------------------------------------------------------------------
(* Properties of sanitize_filename (SanSpec) *)

\* C6: for every input x, sanitize_filename(x) is non-empty, holds none of
\* < > : " / \ | ? * and no whitespace, is "unknown" when x consists only of
\* characters that are replaced or trimmed (so for "" and "..."), and
\* sanitizing it again changes nothing.
SanitizeSafeAndIdempotent ==
    name_out # Unset =>
        LET r == name_out[1]
        IN  /\ r # << >>
            /\ \A p \in 1..Len(r) : r[p] \notin ForbiddenChars \cup WhitespaceChars
            /\ (\A p \in 1..Len(name_in) :
                    name_in[p] \in ForbiddenChars \cup WhitespaceChars \cup { ".", "_" })
                => r = UnknownName
            /\ name_out[2] = r

SanitizeDotsWitness ==
    /\ name_out # Unset
    /\ name_in = << ".", ".", "." >>
    /\ name_out[1] = UnknownName

(* Properties of get_content_details (DetailSpec) *)

\* C9: get_content_details returns None when the response has no content
\* element; otherwise its downloads are, in ascending index order, the
\* indices i in 1..9 with a non-empty downloadlink{i}, each with its
\* downloadname{i}, or file{i} when that name is missing or empty.
DetailsListPopulatedLinks ==
    details_out # Unset =>
        LET d == details_out[1]
            S == { i \in 1..MAX_LINK_INDEX : xml_in.link[i] # << >> }
            nth(k) == CHOOSE i \in S : Cardinality({ m \in S : m < i }) = k - 1
        IN  IF xml_in.kind = "nocontent" THEN d = NoneVal
            ELSE /\ d # NoneVal
                 /\ Len(d.downloads) = Cardinality(S)
                 /\ \A k \in 1..Len(d.downloads) :
                      /\ d.downloads[k].url = xml_in.link[nth(k)]
                      /\ d.downloads[k].name =
                            IF xml_in.name[nth(k)] # << >> THEN xml_in.name[nth(k)]
                            ELSE << "f","i","l","e" >> \o IntStr(nth(k))

DetailsGapWitness ==
    /\ details_out # Unset
    /\ xml_in.kind = "content"
    /\ xml_in.link[3] # << >> /\ xml_in.name[3] = << >>
    /\ xml_in.link[MAX_LINK_INDEX + 1] # << >>
    /\ Len(details_out[1].downloads) = 1
    /\ details_out[1].downloads[1].name = << "f","i","l","e","3" >>

(* Properties of the target-name rule (LinkSpec) *)

TargetBase == Basename(UrlPath(link_in.url))
TargetSynth == sanitize_filename(link_in.item) \o ExtTarGz
TargetHasDownload == Contains(Lower(link_in.url), DownloadWord)

\* C10 as stated: the link is indirect (synthesized name when the URL contains
\* "download", passed over otherwise) only if neither the URL basename nor the
\* display name carries an archive extension; with either, it is not passed over.
TargetRuleEitherName ==
    link_out # Unset =>
        LET out == link_out[1]
            chosen == IF TargetBase = << >> THEN link_in.name ELSE TargetBase
            either == HasArchiveExt(TargetBase) \/ HasArchiveExt(link_in.name)
        IN  IF either THEN ~out.pass /\ out.filename = chosen
            ELSE IF TargetHasDownload THEN ~out.pass /\ out.filename = TargetSynth
            ELSE out.pass

\* C10 amended: only the chosen filename (the URL basename, or the display
\* name when the basename is empty) is tested for an archive extension; the
\* display name of a link with a non-empty basename is not consulted.
TargetRuleChosenName ==
    link_out # Unset =>
        LET out == link_out[1]
            chosen == IF TargetBase = << >> THEN link_in.name ELSE TargetBase
        IN  IF HasArchiveExt(chosen) THEN ~out.pass /\ out.filename = chosen
            ELSE IF TargetHasDownload THEN ~out.pass /\ out.filename = TargetSynth
            ELSE out.pass

TargetNameIgnoredWitness ==
    /\ link_out # Unset
    /\ link_in.url = UrlOpaque /\ link_in.name = NameZip
    /\ link_out[1].pass

----------------------------------------------------------------------------
(* Properties of main() and download_file (Spec) *)

RECURSIVE SumSeq(_)
SumSeq(q) == IF q = << >> THEN 0 ELSE Head(q) + SumSeq(Tail(q))

\* the responses the current call of download_file has received
CallOutcomes == SubSeq(served[<< idx, j >>], 1, dlGets)

InDownload == pc \in { "download", "dlreturn" }

\* the links of item i as main() iterates over them
LinksOf(i) ==
    LET d == get_content_details(XmlOf(remoteDetail[i]))
    IN  IF HasDownloads(d) THEN d.downloads ELSE << >>

\* number of links of item i whose iteration has ended
EndedLinksOf(i) ==
    IF i < idx THEN Len(LinksOf(i))
    ELSE IF i = idx /\ pc \in { "link", "download", "dlreturn" } THEN j - 1
    ELSE 0

\* among them, those passed over as non-source-code files
PassedOverOf(i) ==
    Cardinality({ k \in 1..EndedLinksOf(i) :
                    LinkTarget(sanitize_filename(items[i].name), LinksOf(i)[k]).pass })

LinksEnded == SumSeq([i \in 1..Len(items) |-> EndedLinksOf(i)])
LinksPassedOver == SumSeq([i \in 1..Len(items) |-> PassedOverOf(i)])
ItemsWithoutDownloads ==
    Cardinality({ i \in 1..Len(items) : i < idx /\ LinksOf(i) = << >> })
CountersTotal == downloaded_count + skipped_count + failed_count

RunEnded == pc \in { "done", "aborted" }

\* C1 as stated: the second run downloads nothing and skips as many links as
\* the first run downloaded (looked at where no file was left truncated, so
\* that the defect of C4 plays no part in the comparison).
SecondRunSkipsFirstDownloads ==
    (run = 2 /\ pc = "done" /\ partial = {}) =>
        /\ downloaded_count = 0
        /\ skipped_count = first[1].downloaded

\* C1 amended: the second run downloads nothing; it skips at least the links
\* the first run downloaded or skipped, and its skipped and failed counts add
\* up to the three counts of the first run.
SecondRunDownloadsNothing ==
    run = 2 =>
        /\ downloaded_count = 0
        /\ RunEnded =>
            /\ skipped_count >= first[1].downloaded + first[1].skipped
            /\ skipped_count + failed_count =
                 first[1].downloaded + first[1].skipped + first[1].failed

SecondRunSkipsMoreWitness ==
    /\ run = 2 /\ pc = "done"
    /\ first[1].downloaded >= 1
    /\ skipped_count > first[1].downloaded

\* C2: when every response to download_file is 429, the wait after attempt k
\* (0-based) is RETRY_DELAY * (k + 1), and the call returns False after
\* exactly MAX_RETRIES requests and RETRY_DELAY * (1 + ... + MAX_RETRIES)
\* seconds of backoff.
RateLimitedRetryBound ==
    (InDownload /\ \A k \in 1..dlGets : CallOutcomes[k] = "429") =>
        /\ Len(waits) = dlGets
        /\ \A k \in 1..Len(waits) : waits[k] = RETRY_DELAY * k
        /\ pc = "download" => dlGets < MAX_RETRIES
        /\ pc = "dlreturn" =>
            /\ dlGets = MAX_RETRIES
            /\ dlResult = "False"
            /\ SumSeq(waits) = RETRY_DELAY * ((MAX_RETRIES * (MAX_RETRIES + 1)) \div 2)

RateLimitedWitness ==
    /\ pc = "dlreturn"
    /\ CallOutcomes = << "429", "429", "429" >>

\* C3: a failure of the detail fetch never aborts the run; only a failure of
\* the listing does.
DetailFailureDoesNotAbort ==
    pc = "aborted" => idx = 0

\* C4: download_file makes at most MAX_RETRIES attempts, and when it returns
\* failure no file exists at the destination path.
FailedDownloadLeavesNoFile ==
    /\ InDownload => dlGets <= MAX_RETRIES
    /\ (pc = "dlreturn" /\ dlResult = "False") => output_path \notin files

\* C5 as stated: every link whose iteration has ended and every item without
\* usable details has incremented exactly one counter.
EveryLinkCounted ==
    idx >= 1 => CountersTotal = LinksEnded + ItemsWithoutDownloads

\* C5 amended: every link that reaches the existence check and every item
\* whose details are absent or empty has incremented exactly one counter; a
\* link passed over as a non-source-code file increments none, and a link
\* whose extraction fails stays counted as downloaded.
EveryTargetedLinkCounted ==
    idx >= 1 => CountersTotal = (LinksEnded - LinksPassedOver) + ItemsWithoutDownloads

PassedOverUncountedWitness ==
    /\ pc = "done"
    /\ LinksPassedOver >= 1
    /\ downloaded_count >= 1 /\ failed_count >= 1

\* C7: download_file is entered only with a destination that does not exist,
\* and a link whose destination exists is skipped: skipped + 1, the other
\* counters, the files and the request trace unchanged.
SkipIfExists ==
    /\ [](pc = "download" /\ dlGets = 0 => output_path \notin files)
    /\ [][ (/\ pc = "link"
            /\ j <= Len(details.downloads)
            /\ ~CurrentTarget.pass
            /\ CurrentPath \in files)
           => /\ skipped_count' = skipped_count + 1
              /\ downloaded_count' = downloaded_count
              /\ failed_count' = failed_count
              /\ trace' = trace
              /\ files' = files /\ partial' = partial
              /\ pc' = "link" /\ j' = j + 1 ]_vars

SkippedInFirstRunWitness ==
    /\ run = 1 /\ pc = "link"
    /\ skipped_count >= 1
    /\ trace[Len(trace)].ev = "get"

\* C8: every request but the first of a run comes right after a sleep; every
\* detail request and every first request of a download_file call comes right
\* after a pause of DELAY_BETWEEN_REQUESTS, also when a retry backoff has
\* just been slept.
PacedRequests ==
    \A p \in 1..Len(trace) :
        trace[p].ev = "get" =>
            /\ p > 1 => trace[p - 1].ev = "sleep"
            /\ (trace[p].what = "detail" \/ (trace[p].what = "download" /\ trace[p].n = 0))
                => /\ p > 1
                   /\ trace[p - 1] = Sleep("pace", DELAY_BETWEEN_REQUESTS)
            /\ (trace[p].what = "download" /\ trace[p].n > 0)
                => /\ p > 1
                   /\ trace[p - 1] = Sleep("backoff", RETRY_DELAY * trace[p].n)

BackoffThenPauseWitness ==
    \E p \in 1..(Len(trace) - 2) :
        /\ trace[p] = Sleep("backoff", RETRY_DELAY * MAX_RETRIES)
        /\ trace[p + 1] = Sleep("pace", DELAY_BETWEEN_REQUESTS)
        /\ trace[p + 2].ev = "get"

====
